---- MODULE Spec2Model ----
(***************************************************************************)
(* Model of BasePreview (packages/common/src/components/Preview/index.tsx):*)
(* the navigation history kept in the component state, the socket          *)
(* connection set up by setupSSESockets, the snapshot diff getDiff and the *)
(* execution request executeCodeImmediately.                               *)
(*                                                                         *)
(* Every handler of the component is an operator from a state record to a  *)
(* state record, so that handlers calling handlers compose the way the     *)
(* code runs them; an action takes the record S of the current variables,  *)
(* runs the whole handler and commits the result.                          *)
(***************************************************************************)
EXTENDS Integers, Sequences, FiniteSets, TLC

VARIABLES
  sandbox,            \* props.sandbox: [id, isServer] (isServer = getTemplate(template).isServer)
  modules,            \* props.sandbox.modules by resolved path: path -> [code, isBinary]
  managerStatus,      \* props.managerStatus, as last reported through setSSEManagerStatus
  containerStatus,    \* props.containerStatus, as last reported through setSSEContainerStatus
  frameInitialized,   \* state.frameInitialized
  history,            \* state.history
  historyPosition,    \* state.historyPosition (0-based, as in the code)
  urlInAddressBar,    \* state.urlInAddressBar
  overlayMessage,     \* state.overlayMessage
  serverPreview,      \* this.serverPreview
  lastSent,           \* this.lastSent.modules
  socket,             \* this.$socket: "none" | "closed" | "opening" | "open"
  connectTimeout,     \* this.connectTimeout: NoTimer or a timer id
  localClose,         \* this.localClose
  mounted,            \* FALSE once componentWillUnmount has run
  timers,             \* pending window.setTimeout(onTimeout, 3000) timers
  reopenTicks,        \* pending setTimeout(..., 0) reopen callbacks of setupSSESockets
  startTicks,         \* pending setTimeout callbacks of the 'sandbox:start' handler
  tokenWaits,         \* 'connect' handlers suspended at await retrieveSSEToken()
  target,             \* the content of the container, which applies every 'sandbox:update'
  conn,               \* the connection as the properties follow it: the pending timer of the
                      \* latest open, whether a connect timeout has fired since the last
                      \* reconnect, whether hibernation or an unrecoverable error ended it
  diffIn,             \* the two snapshots handed to getDiff (pure-function specification)
  diffOut,            \* the result of getDiff on diffIn, or NotComputed
  last,               \* the event handled by the last step
  out                 \* what the last step reported, dispatched and emitted, in order

vars == << sandbox, modules, managerStatus, containerStatus, frameInitialized,
           history, historyPosition, urlInAddressBar, overlayMessage,
           serverPreview, lastSent, socket, connectTimeout, localClose, mounted,
           timers, reopenTicks, startTicks, tokenWaits, conn, target, diffIn, diffOut, last, out >>

(***************************************************************************)
(* Bounds of the model                                                     *)
(***************************************************************************)
MaxHist == 3        \* longest history explored
MaxTimers == 2      \* most connect-timeout timers pending at once
MaxTicks == 1       \* most deferred (setTimeout 0) callbacks of one kind pending at once

(***************************************************************************)
(* Values                                                                  *)
(***************************************************************************)
Undefined == "undefined"     \* JavaScript undefined (array index out of range)
Null == "null"               \* JavaScript null (code of a deleted path)
NoTimer == 0                 \* this.connectTimeout = null

TargetUrls == {"/a", "/b"}                 \* urls the target navigates to
TypedUrls == {"/a", ""}                    \* what the user types into the address bar
Deltas == {-2, -1, 1}                      \* diff of a POP notification
EmbeddedSandboxes == {[id |-> 3, isServer |-> FALSE], [id |-> 4, isServer |-> FALSE]}
ServerSandboxes == {[id |-> 1, isServer |-> TRUE], [id |-> 2, isServer |-> TRUE]}

Paths == {"/package.json", "/a.js"}
Codes == {"1", "2"}
Entry(p, c, b) == [path |-> p, code |-> c, isBinary |-> b]
\* IModulesByPath: the objects over Paths, with code a string or null
EntriesOf(p, codes) == {Entry(p, c, b) : c \in codes, b \in BOOLEAN}
SnapshotsOver(codes) ==
  UNION {[D -> UNION {EntriesOf(p, codes) : p \in D}] : D \in SUBSET Paths}
WellFormed(m) == \A p \in DOMAIN m : m[p].path = p
AllSnapshots == {m \in SnapshotsOver(Codes \cup {Null}) : WellFormed(m)}

(***************************************************************************)
(* JavaScript helpers                                                      *)
(***************************************************************************)
Min(a, b) == IF a < b THEN a ELSE b
Max(a, b) == IF a > b THEN a ELSE b

\* Array.prototype.slice(start, end): negative indexes count from the end
RelIndex(i, len) == IF i < 0 THEN Max(len + i, 0) ELSE Min(i, len)
Slice(arr, start, end) ==
  LET from == RelIndex(start, Len(arr))
      to == RelIndex(end, Len(arr))
  IN IF from >= to THEN << >> ELSE SubSeq(arr, from + 1, to)
SliceFrom(arr, start) == Slice(arr, start, Len(arr))

\* arr[i] with a 0-based index: undefined outside the array
At(arr, i) == IF i >= 0 /\ i < Len(arr) THEN arr[i + 1] ELSE Undefined

\* a || b on strings: undefined and the empty string are falsy
OrElse(a, b) == IF a \in {Undefined, ""} THEN b ELSE a

(***************************************************************************)
(* url-generator                                                           *)
(***************************************************************************)
getSSEUrl(sb) == "https://" \o ToString(sb.id) \o ".sse"
frameUrl(sb) == "https://" \o ToString(sb.id) \o ".frame"
previewUrl(server, sb) == IF server THEN getSSEUrl(sb) ELSE frameUrl(sb)

(***************************************************************************)
(* getDiff                                                                 *)
(***************************************************************************)
\* the filter without its comparison of codes: every path of b passes
ChangedPaths_All(a, b) == DOMAIN b

\* the second loop with its test inverted: the paths of a that b has too
RemovedPaths_Kept(a, b) == {p \in DOMAIN a : p \in DOMAIN b}

\* the paths of b that pass the filter: absent from a, or with another code
ChangedPaths(a, b) ==
  {p \in DOMAIN b : IF p \in DOMAIN a THEN a[p].code # b[p].code ELSE TRUE}
\* the paths of a that b does not have
RemovedPaths(a, b) == {p \in DOMAIN a : p \notin DOMAIN b}

\* getDiff without its second loop: removed paths get no tombstone
getDiff_NoTombstones(a, b) ==
  [p \in ChangedPaths(a, b) |->
     [path |-> p, code |-> b[p].code, isBinary |-> b[p].isBinary]]

getDiff(a, b) ==
  [p \in ChangedPaths(a, b) \cup RemovedPaths(a, b) |->
     IF p \in RemovedPaths(a, b)
     THEN [path |-> p, code |-> Null]
     ELSE [path |-> p, code |-> b[p].code, isBinary |-> b[p].isBinary]]

\* a diff applied as a patch: an entry with code null deletes, any other upserts
Deleted(d) == {p \in DOMAIN d : d[p].code = Null}
ApplyPatch(a, d) ==
  [p \in ((DOMAIN a) \cup (DOMAIN d)) \ Deleted(d) |-> IF p \in DOMAIN d THEN d[p] ELSE a[p]]

\* the content of a target that applies, in their order, the 'sandbox:update'
\* messages among the entries o
RECURSIVE ApplyUpdates(_, _)
ApplyUpdates(content, o) ==
  IF o = << >>
  THEN content
  ELSE ApplyUpdates(IF Head(o).to = "socket" /\ Head(o).type = "sandbox:update"
                    THEN ApplyPatch(content, Head(o).data)
                    ELSE content,
                    Tail(o))

(***************************************************************************)
(* The state record handlers work on                                       *)
(***************************************************************************)
S == [sandbox |-> sandbox, modules |-> modules, managerStatus |-> managerStatus,
      containerStatus |-> containerStatus, frameInitialized |-> frameInitialized,
      history |-> history, historyPosition |-> historyPosition,
      urlInAddressBar |-> urlInAddressBar, overlayMessage |-> overlayMessage,
      serverPreview |-> serverPreview, lastSent |-> lastSent, socket |-> socket,
      connectTimeout |-> connectTimeout, localClose |-> localClose,
      mounted |-> mounted, timers |-> timers, reopenTicks |-> reopenTicks,
      startTicks |-> startTicks, tokenWaits |-> tokenWaits, conn |-> conn, out |-> << >>]

Commit(s) ==
  /\ sandbox' = s.sandbox
  /\ modules' = s.modules
  /\ managerStatus' = s.managerStatus
  /\ containerStatus' = s.containerStatus
  /\ frameInitialized' = s.frameInitialized
  /\ history' = s.history
  /\ historyPosition' = s.historyPosition
  /\ urlInAddressBar' = s.urlInAddressBar
  /\ overlayMessage' = s.overlayMessage
  /\ serverPreview' = s.serverPreview
  /\ lastSent' = s.lastSent
  /\ socket' = s.socket
  /\ connectTimeout' = s.connectTimeout
  /\ localClose' = s.localClose
  /\ mounted' = s.mounted
  /\ timers' = s.timers
  /\ reopenTicks' = s.reopenTicks
  /\ startTicks' = s.startTicks
  /\ tokenWaits' = s.tokenWaits
  /\ conn' = s.conn
  /\ target' = IF s.sandbox # sandbox THEN s.lastSent ELSE ApplyUpdates(target, s.out)
  /\ out' = s.out

\* one entry of out: who receives it, its type and its payload
Emit(s, to, type, data) ==
  [s EXCEPT !.out = Append(@, [to |-> to, type |-> type, data |-> data])]

\* codesandbox-api dispatch: a message to the embedded frame
dispatch(s, type, data) == Emit(s, "frame", type, data)

\* props.setSSEManagerStatus: the status comes back in props.managerStatus, which
\* an unmounted component no longer receives
setSSEManagerStatus(s, status) ==
  [Emit(s, "manager", "status", status) EXCEPT
     !.managerStatus = IF s.mounted THEN status ELSE @]

\* props.setSSEContainerStatus, back in props.containerStatus the same way
setSSEContainerStatus(s, status) ==
  [Emit(s, "container", "status", status) EXCEPT
     !.containerStatus = IF s.mounted THEN status ELSE @]

(***************************************************************************)
(* Navigation history                                                      *)
(***************************************************************************)
updateUrl(s, url) == [s EXCEPT !.urlInAddressBar = url]

\* el: whether document.getElementById('sandbox') finds the frame
sendUrl(s, el) ==
  IF el
  THEN [Emit(s, "iframe", "src", s.urlInAddressBar) EXCEPT
          !.history = << s.urlInAddressBar >>,
          !.historyPosition = 0]
  ELSE s

handleRefresh(s) ==
  LET url == OrElse(At(s.history, s.historyPosition), s.urlInAddressBar)
  IN [Emit(s, "iframe", "src", OrElse(url, previewUrl(s.serverPreview, s.sandbox)))
        EXCEPT !.history = << url >>,
               !.historyPosition = 0,
               !.urlInAddressBar = url]

\* commitUrl whose POP branch takes diff for the new position
commitUrl_PopAssigns(s, url, action, diff) ==
  CASE action = "POP" ->
         [s EXCEPT !.historyPosition = diff,
                   !.urlInAddressBar = url]
    [] action = "REPLACE" ->
         [s EXCEPT !.history = Slice(s.history, 0, s.historyPosition)
                               \o << url >>
                               \o SliceFrom(s.history, s.historyPosition + 1),
                   !.urlInAddressBar = url]
    [] OTHER ->
         [s EXCEPT !.history = Slice(s.history, 0, s.historyPosition + 1) \o << url >>,
                   !.historyPosition = s.historyPosition + 1,
                   !.urlInAddressBar = url]

commitUrl(s, url, action, diff) ==
  CASE action = "POP" ->
         [s EXCEPT !.historyPosition = @ + diff,
                   !.urlInAddressBar = url]
    [] action = "REPLACE" ->
         [s EXCEPT !.history = Slice(s.history, 0, s.historyPosition)
                               \o << url >>
                               \o SliceFrom(s.history, s.historyPosition + 1),
                   !.urlInAddressBar = url]
    [] OTHER ->
         [s EXCEPT !.history = Slice(s.history, 0, s.historyPosition + 1) \o << url >>,
                   !.historyPosition = s.historyPosition + 1,
                   !.urlInAddressBar = url]

(***************************************************************************)
(* Snapshots and execution requests                                        *)
(***************************************************************************)
\* generateFileFromSandbox(sandbox): the synthetic manifest
GeneratedManifest == Entry("/package.json", "generated", FALSE)

\* props.extraModules is taken as empty
getModulesToSend(s) ==
  IF "/package.json" \in DOMAIN s.modules
  THEN s.modules
  ELSE [p \in DOMAIN s.modules \cup {"/package.json"} |->
          IF p = "/package.json" THEN GeneratedManifest ELSE s.modules[p]]

initializeLastSent(s) == [s EXCEPT !.lastSent = getModulesToSend(s)]

clearErrors(s) == dispatch(s, "error:clear", "*")

\* this.$socket.emit: the entry records the state the socket is in
socketEmit(s, type, data) ==
  [s EXCEPT !.out = Append(@, [to |-> "socket", type |-> type, data |-> data,
                               socket |-> s.socket])]

\* a 'compile' message that carries the diff against the baseline
CompileMessage_Diff(s, modulesToSend, isInProjectView) ==
  [version |-> 3, entry |-> IF isInProjectView THEN "entry" ELSE "currentModule",
   modules |-> getDiff(s.lastSent, modulesToSend), sandboxId |-> s.sandbox.id,
   externalResources |-> "externalResources", isModuleView |-> ~isInProjectView,
   template |-> IF s.sandbox.isServer THEN "server" ELSE "browser"]

\* the 'compile' message of the embedded mode
CompileMessage(s, modulesToSend, isInProjectView) ==
  [version |-> 3, entry |-> IF isInProjectView THEN "entry" ELSE "currentModule",
   modules |-> modulesToSend, sandboxId |-> s.sandbox.id,
   externalResources |-> "externalResources", isModuleView |-> ~isInProjectView,
   template |-> IF s.sandbox.isServer THEN "server" ELSE "browser"]

\* the serverPreview branch without the check of the container status
sendServerUpdate_AlwaysMarks(s, modulesToSend) ==
  LET diff == getDiff(s.lastSent, modulesToSend)
      s1 == [s EXCEPT !.lastSent = modulesToSend]
  IN IF DOMAIN diff # {} /\ s1.socket # "none"
     THEN socketEmit(s1, "sandbox:update", diff)
     ELSE s1

\* the serverPreview branch without the check that the diff has a key
sendServerUpdate_AlwaysEmits(s, modulesToSend) ==
  LET diff == getDiff(s.lastSent, modulesToSend)
      s1 == IF s.containerStatus = "sandbox-started"
            THEN [s EXCEPT !.lastSent = modulesToSend]
            ELSE s
  IN IF s1.socket # "none"
     THEN socketEmit(s1, "sandbox:update", diff)
     ELSE s1

\* the serverPreview branch of executeCodeImmediately
sendServerUpdate(s, modulesToSend) ==
  LET diff == getDiff(s.lastSent, modulesToSend)
      s1 == IF s.containerStatus = "sandbox-started"
            THEN [s EXCEPT !.lastSent = modulesToSend]
            ELSE s
  IN IF DOMAIN diff # {} /\ s1.socket # "none"
     THEN socketEmit(s1, "sandbox:update", diff)
     ELSE s1

\* props: [forceRefresh, clearConsoleEnabled, isInProjectView]
executeCodeImmediately(s, initialRender, props) ==
  LET s1 == IF props.clearConsoleEnabled /\ ~s.serverPreview
            THEN dispatch(s, "clear-console", "")
            ELSE s
      s2 == clearErrors(s1)
      s3 == IF ~props.isInProjectView
            THEN dispatch(s2, "evaluate", "history.pushState({}, null, '/')")
            ELSE s2
      modulesToSend == getModulesToSend(s3)
  IN IF props.forceRefresh /\ ~initialRender
     THEN handleRefresh(s2)
     ELSE IF s3.serverPreview
          THEN sendServerUpdate(s3, modulesToSend)
          ELSE dispatch(s3, "compile", CompileMessage(s3, modulesToSend, props.isInProjectView))

(***************************************************************************)
(* The socket and its handlers                                             *)
(***************************************************************************)
\* React drops setState on an unmounted component
Rendered(s, t) == IF s.mounted THEN t ELSE s

sseTerminalMessage(s, msg) == dispatch(s, "terminal:message", msg)

\* socket.on('disconnect')
onDisconnect(s) ==
  IF s.localClose
  THEN [s EXCEPT !.localClose = FALSE]
  ELSE IF s.managerStatus = "connected" /\ s.containerStatus # "hibernated"
       THEN dispatch(setSSEManagerStatus(s, "disconnected"), "codesandbox:sse:disconnect", "")
       ELSE s

\* one handled 'disconnect' event; the trace entry tells who closed the socket
\* ("reconnect", "close": the host's calls; "handler": the close of the hibernate
\* and error handlers; "server": the other side), what the handler read and did
DisconnectEvent(s, by) ==
  LET t == onDisconnect(s)
  IN [t EXCEPT !.out = Append(@, [to |-> "trace", type |-> "disconnect", by |-> by,
                                  suppressed |-> s.localClose,
                                  managerStatus |-> s.managerStatus,
                                  containerStatus |-> s.containerStatus,
                                  reported |-> t.out # s.out])]

\* socket.close() of socket.io-client: a connected socket emits 'disconnect'
\* ("io client disconnect") before close returns, any other socket emits nothing
socketClose(s, by) ==
  IF s.socket = "open"
  THEN DisconnectEvent([s EXCEPT !.socket = "closed"], by)
  ELSE [s EXCEPT !.socket = "closed"]

\* socket.open(): nothing on a socket that is connecting or connected
socketOpen(s) == IF s.socket = "closed" THEN [s EXCEPT !.socket = "opening"] ELSE s

\* window.setTimeout(() => onTimeout(this), 3000): the id of the new timer
NewTimer(s) == CHOOSE i \in 1..(MaxTimers + 1) : i \notin s.timers /\ \A j \in 1..(i - 1) : j \in s.timers

startConnectTimeout(s) ==
  [s EXCEPT !.connectTimeout = NewTimer(s), !.timers = @ \cup {NewTimer(s)},
            !.conn.timer = NewTimer(s)]

\* a timer that fired or was cleared is pending no more
TimerGone(s, id) ==
  [s EXCEPT !.timers = @ \ {id}, !.conn.timer = IF @ = id THEN NoTimer ELSE @]

\* onTimeout(comp)
onTimeout(s) ==
  setSSEManagerStatus([s EXCEPT !.connectTimeout = NoTimer, !.conn.timedOut = TRUE],
                      "disconnected")

setupSSESockets(s) ==
  IF s.socket # "none"
  THEN LET s1 == Rendered(s, [s EXCEPT !.frameInitialized = FALSE])
           s2 == socketClose([s1 EXCEPT !.localClose = TRUE], "reconnect")
       IN [s2 EXCEPT !.reopenTicks = @ + 1, !.conn.timedOut = FALSE]
  ELSE socketOpen(startConnectTimeout([s EXCEPT !.socket = "closed"]))

\* the setTimeout(..., 0) callback of setupSSESockets
reopenSocket(s) == socketOpen(startConnectTimeout(s))

\* socket.on('connect'), up to the await
onConnect(s) ==
  LET s1 == IF s.connectTimeout # NoTimer
            THEN [TimerGone(s, s.connectTimeout) EXCEPT !.connectTimeout = NoTimer]
            ELSE s
      s2 == setSSEManagerStatus(s1, "connected")
  IN [s2 EXCEPT !.tokenWaits = @ \cup {s.sandbox.id}]

\* socket.on('connect'), after the await: id was read before it
onConnectResume(s, id) ==
  LET s1 == socketEmit(s, "sandbox", id)
      s2 == sseTerminalMessage(s1, "connected, starting sandbox")
  IN socketEmit([s2 EXCEPT !.tokenWaits = @ \ {id}], "sandbox:start", "")

\* socket.on('sandbox:status')
onSandboxStatus(s, status) ==
  IF status = "starting-container"
  THEN setSSEContainerStatus(s, "initializing")
  ELSE IF status = "installing-packages"
       THEN setSSEContainerStatus(s, "container-started")
       ELSE s

\* socket.on('sandbox:start'); componentWillUpdate refreshes when frameInitialized turns true
onSandboxStart(s) ==
  LET s1 == sseTerminalMessage(s, "started")
      s2 == IF ~s1.frameInitialized /\ s1.mounted
            THEN handleRefresh([s1 EXCEPT !.frameInitialized = TRUE, !.overlayMessage = "none"])
            ELSE Rendered(s1, [s1 EXCEPT !.overlayMessage = "none"])
      s3 == setSSEContainerStatus(s2, "sandbox-started")
  IN [s3 EXCEPT !.startTicks = @ + 1]

\* the setTimeout callback of the 'sandbox:start' handler
onSandboxStartTick(s, props) ==
  LET s1 == executeCodeImmediately([s EXCEPT !.startTicks = @ - 1], TRUE, props)
  IN Rendered(s1, handleRefresh(s1))

\* socket.on('sandbox:hibernate')
onSandboxHibernate(s) ==
  LET s0 == [s EXCEPT !.conn.terminal = TRUE]
      s1 == setSSEContainerStatus(sseTerminalMessage(s0, "hibernated"), "hibernated")
  IN IF s1.mounted
     THEN socketClose([s1 EXCEPT !.frameInitialized = FALSE, !.overlayMessage = "hibernated"],
                      "handler")
     ELSE s1

\* socket.on('sandbox:stop')
onSandboxStop(s) ==
  LET s1 == setSSEContainerStatus(sseTerminalMessage(s, "restarting"), "stopped")
  IN Rendered(s1, [s1 EXCEPT !.frameInitialized = FALSE, !.overlayMessage = "restarting"])

\* socket.on('sandbox:error')
onSandboxError(s, unrecoverable) ==
  LET s1 == sseTerminalMessage([s EXCEPT !.conn.terminal = @ \/ unrecoverable], "error")
  IN IF unrecoverable
     THEN IF s1.mounted
          THEN socketClose([s1 EXCEPT !.frameInitialized = FALSE, !.overlayMessage = "error"],
                           "handler")
          ELSE s1
     ELSE Emit(s1, "notifications", "error", "Sandbox Container")

componentWillUnmount(s) ==
  LET s1 == [s EXCEPT !.mounted = FALSE]
  IN IF s1.socket # "none"
     THEN socketClose([s1 EXCEPT !.localClose = TRUE], "close")
     ELSE s1

handleSandboxChange(s) ==
  LET s1 == [s EXCEPT !.serverPreview = s.sandbox.isServer]
      s2 == Emit(s1, "api", "resetState", "")
      url == previewUrl(s2.serverPreview, s2.sandbox)
      s3 == IF s2.serverPreview THEN setupSSESockets(initializeLastSent(s2)) ELSE s2
  IN handleRefresh([s3 EXCEPT !.history = << url >>,
                              !.historyPosition = 0,
                              !.urlInAddressBar = url,
                              !.overlayMessage = "none"])

\* handleMessage(data, source) for the messages of the frame the model follows
handleMessage(s, data) ==
  CASE data.type = "initialized" ->
         executeCodeImmediately(Emit(s, "api", "registerFrame",
                                     previewUrl(s.serverPreview, s.sandbox)),
                                TRUE, data.props)
    [] data.type = "render" -> executeCodeImmediately(s, FALSE, data.props)
    [] data.type = "urlchange" -> commitUrl(s, data.url, data.action, data.diff)
    [] data.type = "socket:message" ->
         IF s.socket # "none" THEN socketEmit(s, data.channel, "message") ELSE s
    [] OTHER -> s

(***************************************************************************)
(* The component after its constructor                                     *)
(***************************************************************************)
NoModules == [p \in {} |-> Entry(p, Null, FALSE)]

Constructed(sb, mods) ==
  LET s0 == [sandbox |-> sb, modules |-> mods, managerStatus |-> "connecting",
             containerStatus |-> "initializing", frameInitialized |-> FALSE,
             history |-> << >>, historyPosition |-> 0,
             urlInAddressBar |-> previewUrl(sb.isServer, sb),
             overlayMessage |-> "none", serverPreview |-> sb.isServer,
             lastSent |-> NoModules, socket |-> "none", connectTimeout |-> NoTimer,
             localClose |-> FALSE, mounted |-> TRUE, timers |-> {}, reopenTicks |-> 0,
             startTicks |-> 0, tokenWaits |-> {},
             conn |-> [timer |-> NoTimer, timedOut |-> FALSE, terminal |-> FALSE],
             out |-> << >>]
      s1 == initializeLastSent(s0)
  IN IF s1.serverPreview THEN setupSSESockets(s1) ELSE s1

InitWith(sbs, modChoices) ==
  /\ \E sb \in sbs, mods \in modChoices :
       LET c == Constructed(sb, mods)
       IN /\ sandbox = c.sandbox /\ modules = c.modules
          /\ managerStatus = c.managerStatus /\ containerStatus = c.containerStatus
          /\ frameInitialized = c.frameInitialized /\ history = c.history
          /\ historyPosition = c.historyPosition /\ urlInAddressBar = c.urlInAddressBar
          /\ overlayMessage = c.overlayMessage /\ serverPreview = c.serverPreview
          /\ lastSent = c.lastSent /\ socket = c.socket
          /\ connectTimeout = c.connectTimeout /\ localClose = c.localClose
          /\ mounted = c.mounted /\ timers = c.timers /\ reopenTicks = c.reopenTicks
          /\ startTicks = c.startTicks /\ tokenWaits = c.tokenWaits
          /\ conn = c.conn
          /\ target = c.lastSent
  /\ diffIn = << NoModules, NoModules >>
  /\ diffOut = [computed |-> FALSE]
  /\ last = [op |-> "constructor"]
  /\ out = << >>

\* the bounds every step keeps
WithinBounds(s) ==
  /\ Len(s.history) <= MaxHist
  /\ s.historyPosition \in -MaxHist..MaxHist
  /\ Cardinality(s.timers) <= MaxTimers
  /\ s.reopenTicks <= MaxTicks
  /\ s.startTicks <= MaxTicks

Step(s, ev) ==
  /\ WithinBounds(s)
  /\ Commit(s)
  /\ last' = ev
  /\ UNCHANGED << diffIn, diffOut >>

(***************************************************************************)
(* Actions: messages of the frame and the user                             *)
(***************************************************************************)
\* how many PUSH notifications in a row the history has seen since the constructor
\* (0: some other operation came between), kept through one following POP
PushRun(action) ==
  LET before == IF last.op = "constructor" THEN 0
                ELSE IF last.op = "urlchange" /\ last.action = "PUSH" /\ last.run > 0
                     THEN last.run
                     ELSE -1
  IN IF before < 0 THEN 0
     ELSE IF action = "PUSH" THEN before + 1
          ELSE IF action = "POP" THEN before
               ELSE 0

UrlChange(url, action, diff) ==
  /\ mounted
  /\ Step(handleMessage(S, [type |-> "urlchange", url |-> url, action |-> action, diff |-> diff]),
          [op |-> "urlchange", url |-> url, action |-> action, diff |-> diff,
           run |-> PushRun(action)])

Refresh ==
  /\ mounted
  /\ Step(handleRefresh(S), [op |-> "refresh"])

UpdateUrl(url) ==
  /\ mounted
  /\ Step(updateUrl(S, url), [op |-> "updateUrl", url |-> url])

SendUrl(el) ==
  /\ mounted
  /\ Step(sendUrl(S, el), [op |-> "sendUrl", el |-> el])

\* componentDidUpdate: props.sandbox has another id
SandboxChange(sb, mods) ==
  /\ mounted
  /\ sb.id # sandbox.id
  /\ Step(handleSandboxChange([S EXCEPT !.sandbox = sb, !.modules = mods]),
          [op |-> "sandboxChange", id |-> sb.id])

\* the modules of props.sandbox are edited
EditModules(mods) ==
  /\ mounted
  /\ mods # modules
  /\ Step([S EXCEPT !.modules = mods], [op |-> "edit"])

Initialized(props) ==
  /\ mounted
  /\ Step(handleMessage(S, [type |-> "initialized", props |-> props]),
          [op |-> "initialized", props |-> props])

Render(props) ==
  /\ mounted
  /\ Step(handleMessage(S, [type |-> "render", props |-> props]),
          [op |-> "render", props |-> props])

SocketMessage ==
  /\ mounted
  /\ Step(handleMessage(S, [type |-> "socket:message", channel |-> "channel"]),
          [op |-> "socket:message"])

Unmount ==
  /\ mounted
  /\ Step(componentWillUnmount(S), [op |-> "unmount"])

(***************************************************************************)
(* Actions: the socket and the timers                                      *)
(***************************************************************************)
\* (at most one handler per sandbox id is kept suspended at the await)
SocketConnect ==
  /\ socket = "opening"
  /\ sandbox.id \notin tokenWaits
  /\ Step(onConnect([S EXCEPT !.socket = "open"]), [op |-> "connect"])

TokenResolved(id) ==
  /\ id \in tokenWaits
  /\ Step(onConnectResume(S, id), [op |-> "token", id |-> id])

\* the connection is lost or the server closes it; the manager of socket.io may
\* then reconnect on its own (next = "opening") or not (next = "closed")
ServerDisconnect(next) ==
  /\ socket = "open"
  /\ Step(DisconnectEvent([S EXCEPT !.socket = next], "server"),
          [op |-> "disconnect", next |-> next])

ReopenTick ==
  /\ reopenTicks > 0
  /\ Step(reopenSocket([S EXCEPT !.reopenTicks = @ - 1]), [op |-> "reopen"])

ConnectTimeoutFires(id) ==
  /\ id \in timers
  /\ Step(onTimeout(TimerGone(S, id)),
          [op |-> "timeout", id |-> id, current |-> connectTimeout])

SandboxStatus(status) ==
  /\ socket = "open"
  /\ Step(onSandboxStatus(S, status), [op |-> "sandbox:status", status |-> status])

SandboxStart ==
  /\ socket = "open"
  /\ Step(onSandboxStart(S), [op |-> "sandbox:start"])

SandboxStartTick(props) ==
  /\ startTicks > 0
  /\ Step(onSandboxStartTick(S, props), [op |-> "sandbox:start tick", props |-> props])

SandboxHibernate ==
  /\ socket = "open"
  /\ Step(onSandboxHibernate(S), [op |-> "sandbox:hibernate"])

SandboxStop ==
  /\ socket = "open"
  /\ Step(onSandboxStop(S), [op |-> "sandbox:stop"])

SandboxError(unrecoverable) ==
  /\ socket = "open"
  /\ Step(onSandboxError(S, unrecoverable),
          [op |-> "sandbox:error", unrecoverable |-> unrecoverable])

(***************************************************************************)
(* Specifications                                                          *)
(***************************************************************************)
Actions == {"PUSH", "REPLACE", "POP"}
OneProject == {[p \in {"/a.js"} |-> Entry(p, "1", FALSE)]}
DefaultProps == [forceRefresh |-> FALSE, clearConsoleEnabled |-> FALSE, isInProjectView |-> TRUE]

\* the navigation history of an embedded preview
InitNav == InitWith({[id |-> 3, isServer |-> FALSE]}, OneProject)
NextNav ==
  \/ \E url \in TargetUrls, action \in Actions, diff \in Deltas : UrlChange(url, action, diff)
  \/ Refresh
  \/ \E url \in TypedUrls : UpdateUrl(url)
  \/ \E el \in BOOLEAN : SendUrl(el)
  \/ \E sb \in EmbeddedSandboxes, mods \in OneProject : SandboxChange(sb, mods)
SpecNav == InitNav /\ [][NextNav]_vars

\* the snapshot differ on its own: getDiff on every pair of snapshots
InitDiff ==
  /\ InitWith({[id |-> 3, isServer |-> FALSE]}, OneProject)!1
  /\ diffIn \in AllSnapshots \X AllSnapshots
  /\ diffOut = [computed |-> FALSE]
  /\ last = [op |-> "constructor"]
  /\ out = << >>
ComputeDiff ==
  /\ ~diffOut.computed
  /\ diffOut' = [computed |-> TRUE, diff |-> getDiff(diffIn[1], diffIn[2])]
  /\ last' = [op |-> "getDiff"]
  /\ UNCHANGED << sandbox, modules, managerStatus, containerStatus, frameInitialized,
                  history, historyPosition, urlInAddressBar, overlayMessage,
                  serverPreview, lastSent, socket, connectTimeout, localClose, mounted,
                  timers, reopenTicks, startTicks, tokenWaits, conn, target, diffIn, out >>
NextDiff == ComputeDiff
SpecDiff == InitDiff /\ [][NextDiff]_vars

\* execution requests while the project is edited and the container comes up
ProjectSnapshots ==
  {m \in SnapshotsOver(Codes) : WellFormed(m) /\ \A p \in DOMAIN m : ~m[p].isBinary}
ExecProps ==
  {[forceRefresh |-> f, clearConsoleEnabled |-> c, isInProjectView |-> ~c] : f, c \in BOOLEAN}
InitExec == InitWith({[id |-> 1, isServer |-> TRUE], [id |-> 3, isServer |-> FALSE]}, OneProject)
NextExec ==
  \/ \E mods \in ProjectSnapshots : EditModules(mods)
  \/ \E props \in ExecProps : Initialized(props)
  \/ \E props \in ExecProps : Render(props)
  \/ SocketConnect
  \/ \E id \in tokenWaits : TokenResolved(id)
  \/ \E status \in {"starting-container", "installing-packages"} : SandboxStatus(status)
  \/ SandboxStart
  \/ \E props \in ExecProps : SandboxStartTick(props)
  \/ SandboxStop
  \/ SocketMessage
SpecExec == InitExec /\ [][NextExec]_vars

\* the connection of a server preview through reconnects, timeouts and teardown
ConnSandboxes == ServerSandboxes \cup {[id |-> 3, isServer |-> FALSE]}
InitConn == InitWith({[id |-> 1, isServer |-> TRUE]}, OneProject)
NextConn ==
  \/ \E sb \in ConnSandboxes, mods \in OneProject : SandboxChange(sb, mods)
  \/ Unmount
  \/ SocketConnect
  \/ \E id \in tokenWaits : TokenResolved(id)
  \/ \E next \in {"closed", "opening"} : ServerDisconnect(next)
  \/ ReopenTick
  \/ \E id \in timers : ConnectTimeoutFires(id)
  \/ \E status \in {"starting-container", "installing-packages"} : SandboxStatus(status)
  \/ SandboxStart
  \/ SandboxStartTick(DefaultProps)
  \/ SandboxHibernate
  \/ SandboxStop
  \/ \E unrecoverable \in BOOLEAN : SandboxError(unrecoverable)
  \/ SocketMessage
SpecConn == InitConn /\ [][NextConn]_vars

(***************************************************************************)
(* Properties                                                              *)
(***************************************************************************)
IsUrlChange(ev, action) == ev.op = "urlchange" /\ ev.action = action

\* C1: whenever the history is non-empty, 0 <= historyPosition < history.length
C1_PositionWithinHistory ==
  history # << >> => 0 <= historyPosition /\ historyPosition < Len(history)

\* the trace entries of the 'disconnect' events the last step handled
DisconnectsHandled == {i \in DOMAIN out : out[i].to = "trace" /\ out[i].type = "disconnect"}

\* C2: a reconnect cancels the connect timeout of the previous open, so that the
\* old timer never fires: a timer that fires and reports 'disconnected' is the one
\* this.connectTimeout names, and none fires between a reconnect and its reopen
C2_PriorTimeoutCancelled ==
  last.op = "timeout" => last.current = last.id /\ reopenTicks = 0

\* C3: a 'disconnect' event is suppressed exactly when the host's reconnect or
\* close closed the socket, and a disconnect of the other side that arrives while
\* the manager status is 'connected' and the container is not hibernated reports
\* 'disconnected' (and with it dispatches the termination notice)
C3_DisconnectSuppressedIffHostInitiated ==
  \A i \in DisconnectsHandled :
    /\ out[i].suppressed <=> out[i].by \in {"reconnect", "close"}
    /\ (out[i].by = "server" /\ out[i].managerStatus = "connected"
                             /\ out[i].containerStatus # "hibernated")
         => /\ out[i].reported
            /\ \E j \in DOMAIN out : /\ out[j].to = "manager"
                                     /\ out[j].data = "disconnected"
            /\ \E j \in DOMAIN out : out[j].to = "frame" /\ out[j].type = "codesandbox:sse:disconnect"

\* the events that are execution requests, and those that only refresh the frame
ExecRequest(ev) == ev.op \in {"initialized", "render", "sandbox:start tick"}
RefreshOnly(ev) == ev.op = "render" /\ ev.props.forceRefresh

\* C4 as claimed: a remote execution request makes the baseline the current
\* snapshot when the container status is 'sandbox-started', and leaves it otherwise
C4_AsClaimed ==
  [][(ExecRequest(last') /\ serverPreview)
       => IF containerStatus = "sandbox-started"
          THEN lastSent' = getModulesToSend(S)
          ELSE lastSent' = lastSent]_vars

\* C4: a remote execution request makes the baseline the current snapshot when
\* the container status is 'sandbox-started' and the request is not one that only
\* refreshes the frame (forceRefresh on a request that is not the initial render);
\* every other remote execution request leaves the baseline unchanged
C4_BaselineOnlyWhenStarted ==
  [][(ExecRequest(last') /\ serverPreview)
       => IF containerStatus = "sandbox-started" /\ ~RefreshOnly(last')
          THEN lastSent' = getModulesToSend(S)
          ELSE lastSent' = lastSent]_vars

\* a 'sandbox:update' of the last step
UpdateEmitted == \E i \in DOMAIN out : out[i].to = "socket" /\ out[i].type = "sandbox:update"

\* a request that sent a diff and moved the baseline to the current snapshot
C4_Witness ==
  /\ last.op = "render" /\ ~last.props.forceRefresh /\ serverPreview
  /\ containerStatus = "sandbox-started"
  /\ UpdateEmitted
  /\ lastSent = getModulesToSend(S)

NonNullEntries(b) == [p \in {q \in DOMAIN b : b[q].code # Null} |-> b[p]]
Content(m) == {<< p, m[p].code >> : p \in {q \in DOMAIN m : m[q].code # Null}}

\* C5 as claimed: the patched snapshot is exactly the entries of B with a code
C5_AsClaimed ==
  diffOut.computed => ApplyPatch(diffIn[1], diffOut.diff) = NonNullEntries(diffIn[2])

\* C5: the patched snapshot has a code on exactly the paths where B has one, and
\* there B's code; a path that is new or whose code changed has B's whole entry
\* (an isBinary flag that changed alone stays A's, and a path with code null in A
\* and in B stays as it is)
C5_PatchReconstructsContent ==
  diffOut.computed =>
    LET a == diffIn[1]
        b == diffIn[2]
        patched == ApplyPatch(a, diffOut.diff)
    IN /\ Content(patched) = Content(b)
       /\ \A p \in DOMAIN b :
            (b[p].code # Null /\ (p \notin DOMAIN a \/ a[p].code # b[p].code))
              => patched[p] = b[p]

\* a diff that deletes one path of A and changes the code of another
C5_Witness ==
  /\ diffOut.computed
  /\ \E p \in DOMAIN diffOut.diff :
       /\ diffOut.diff[p].code = Null
       /\ p \in DOMAIN diffIn[1] /\ diffIn[1][p].code # Null
  /\ \E p \in DOMAIN diffOut.diff :
       /\ diffOut.diff[p].code # Null
       /\ p \in DOMAIN diffIn[1] /\ diffIn[1][p].code # Null

\* C6: N >= 1 PUSH notifications on the history of the constructor give position
\* N - 1 and length N, and a following POP with diff -1 position N - 2, same length
C6_PushesThenPop ==
  /\ (IsUrlChange(last, "PUSH") /\ last.run >= 1)
       => historyPosition = last.run - 1 /\ Len(history) = last.run
  /\ (IsUrlChange(last, "POP") /\ last.run >= 1 /\ last.diff = -1)
       => historyPosition = last.run - 2 /\ Len(history) = last.run

\* C7: a REPLACE notification changes neither the length of the history nor the
\* position, and no entry but history[historyPosition], which becomes the url
C7_ReplaceKeepsShape ==
  [][IsUrlChange(last', "REPLACE")
       => /\ Len(history') = Len(history)
          /\ historyPosition' = historyPosition
          /\ \A i \in 0..(Len(history) - 1) :
               At(history', i) = IF i = historyPosition THEN last'.url ELSE At(history, i)]_vars

\* C8: a POP notification with diff d moves the position by d, puts the url in
\* the address bar and leaves the entries of the history as they are
C8_PopMovesPosition ==
  [][IsUrlChange(last', "POP")
       => /\ historyPosition' = historyPosition + last'.diff
          /\ urlInAddressBar' = last'.url
          /\ history' = history]_vars

\* position 3 and a POP with diff -2: position 1
C8_Witness ==
  /\ IsUrlChange(last, "POP") /\ last.diff = -2
  /\ historyPosition = 1
  /\ urlInAddressBar = last.url
  /\ Len(history) = 3

\* the transitions that commit a url
Committed(ev) ==
  \/ ev.op \in {"urlchange", "refresh", "sandboxChange"}
  \/ ev.op = "sendUrl" /\ ev.el

\* C9: after a committed transition urlInAddressBar is history[historyPosition]
C9_AddressBarMirrorsHistory ==
  Committed(last) => urlInAddressBar = At(history, historyPosition)

\* C10: no connect timeout fires, and reports 'disconnected', after the host has
\* closed the socket at teardown
C10_NoTimeoutAfterClose ==
  ~mounted => last.op # "timeout"

\* C11: once 'connect' is handled and 'connected' reported, the timeout started
\* by the open of that connection attempt is pending no more, so that it cannot
\* fire and report 'disconnected'
C11_ConnectCancelsAttemptTimeout ==
  last.op = "connect" => conn.timer = NoTimer

\* C12: after a connect timeout has fired and reported 'disconnected', the socket
\* is left closed, and no 'connect' is handled until a reconnect is requested
C12_TimedOutStaysClosed ==
  conn.timedOut => socket = "closed" /\ last.op # "connect"

\* C13: after 'sandbox:hibernate' or an unrecoverable 'sandbox:error' the socket
\* is closed, and no later operation opens that socket again
C13_TerminalSocketStaysClosed ==
  conn.terminal => socket = "closed"

\* C20: while the execution mode is embedded the socket channel is not active:
\* the socket is neither connecting nor connected, in particular after a change
\* from a server sandbox to an embedded one
C20_EmbeddedHasNoActiveSocket ==
  ~serverPreview => socket \notin {"opening", "open"}

\* C14: getDiff(previous, next) has an entry for exactly the paths of next that
\* previous lacks or has with another code, carrying next's code, and the paths of
\* previous that next lacks, carrying code null; an unchanged path has no entry,
\* and an empty previous yields all of next
C14_DiffEntries ==
  diffOut.computed =>
    LET previous == diffIn[1]
        next == diffIn[2]
        diff == diffOut.diff
        added == {p \in DOMAIN next : p \notin DOMAIN previous}
        changed == {p \in DOMAIN next \cap DOMAIN previous :
                      previous[p].code # next[p].code}
        removed == {p \in DOMAIN previous : p \notin DOMAIN next}
    IN /\ DOMAIN diff = added \cup changed \cup removed
       /\ \A p \in added \cup changed : diff[p].code = next[p].code
       /\ \A p \in removed : diff[p].code = Null
       /\ DOMAIN previous = {} => diff = next

\* the scenario of a changed path and a new path
C14_Witness ==
  /\ diffOut.computed
  /\ DOMAIN diffIn[1] = {"/a.js"} /\ diffIn[1]["/a.js"].code = "1"
  /\ DOMAIN diffIn[2] = Paths /\ diffIn[2]["/a.js"].code = "2"
  /\ DOMAIN diffOut.diff = Paths
  /\ diffOut.diff["/a.js"].code = "2"
  /\ diffOut.diff["/package.json"].code = diffIn[2]["/package.json"].code

\* C15: getDiff(A, A) is the empty mapping
C15_DiffOfSelfIsEmpty ==
  (diffOut.computed /\ diffIn[1] = diffIn[2]) => DOMAIN diffOut.diff = {}

\* a snapshot with every path, diffed against itself
C15_Witness ==
  /\ diffOut.computed
  /\ diffIn[1] = diffIn[2]
  /\ DOMAIN diffIn[1] = Paths
  /\ DOMAIN diffOut.diff = {}

\* a 'compile' message of the last step with the whole current snapshot, the
\* entry path, the external resources and the template of the sandbox
FullCompileSent ==
  \E i \in DOMAIN out :
    /\ out[i].to = "frame" /\ out[i].type = "compile"
    /\ out[i].data.modules = getModulesToSend(S)
    /\ out[i].data.entry = (IF last.props.isInProjectView THEN "entry" ELSE "currentModule")
    /\ out[i].data.externalResources = "externalResources"
    /\ out[i].data.template = "browser"

\* C16 as claimed: in embedded mode every execution request sends a 'compile'
\* message with the full current snapshot and the compile metadata
C16_AsClaimed ==
  (ExecRequest(last) /\ ~serverPreview) => FullCompileSent

\* C16: in embedded mode every execution request that is not turned into a frame
\* refresh (forceRefresh on a request that is not the initial render) sends a
\* 'compile' message with the full current snapshot, undiffed, and the entry path,
\* external resources and template; a request turned into a refresh sends none
C16_CompileUnlessRefresh ==
  (ExecRequest(last) /\ ~serverPreview) =>
    IF RefreshOnly(last)
    THEN \A i \in DOMAIN out : out[i].type # "compile"
    ELSE FullCompileSent

\* a request after an edit: the snapshot sent differs from the baseline in some
\* path only, and is sent whole
C16_Witness ==
  /\ last.op = "render" /\ ~last.props.forceRefresh /\ ~serverPreview
  /\ FullCompileSent
  /\ DOMAIN getDiff(lastSent, getModulesToSend(S)) \notin {{}, DOMAIN getModulesToSend(S)}

\* the emits of the last step on the socket
SocketEmits == {i \in DOMAIN out : out[i].to = "socket"}

\* C17: a 'sandbox:update' on the socket always carries a non-empty diff, the
\* one between the baseline and the current snapshot of a remote execution
\* request, and a remote execution request whose diff is empty emits nothing on
\* the socket
C17_UpdateOnlyWithNonEmptyDiff ==
  [][/\ \A i \in DOMAIN out' :
          (out'[i].to = "socket" /\ out'[i].type = "sandbox:update")
            => /\ ExecRequest(last') /\ serverPreview
               /\ out'[i].data = getDiff(lastSent, getModulesToSend(S))
               /\ DOMAIN out'[i].data # {}
     /\ (/\ ExecRequest(last') /\ serverPreview
         /\ DOMAIN getDiff(lastSent, getModulesToSend(S)) = {})
          => \A i \in DOMAIN out' : out'[i].to # "socket"]_vars

\* a remote request on a snapshot equal to the baseline, which the request left
\* as it was, with nothing emitted on the socket
C17_Witness ==
  /\ last.op = "render" /\ ~last.props.forceRefresh /\ serverPreview
  /\ socket = "open" /\ containerStatus = "container-started"
  /\ DOMAIN getDiff(lastSent, getModulesToSend(S)) = {}
  /\ SocketEmits = {}

\* C18: when the handler of an 'initialized' message returns, the frame has been
\* registered, frameInitialized is true, and the execution request has been made
\* in the handler itself (its messages are among those of this step)
C18_InitializedMarksReady ==
  last.op = "initialized" =>
    /\ \E i \in DOMAIN out : out[i].to = "api" /\ out[i].type = "registerFrame"
    /\ frameInitialized
    /\ \E i \in DOMAIN out : out[i].to = "frame" /\ out[i].type = "error:clear"

\* C19: a 'socket:message' proxied while no socket exists, or while the socket is
\* not connected, is answered with a report to someone other than the socket
C19_SendWithoutChannelReported ==
  (last.op = "socket:message" /\ socket # "open") =>
    \E i \in DOMAIN out : out[i].to # "socket"

\* C21: the container starts from the initial baseline and applies every
\* 'sandbox:update' in order; after a remote execution request (one that is not
\* turned into a frame refresh) its content is the current snapshot, whatever the
\* container status was during earlier requests
C21_TargetFollowsSnapshot ==
  (ExecRequest(last) /\ ~RefreshOnly(last) /\ serverPreview)
    => Content(target) = Content(getModulesToSend(S))

\* C22: once the component is unmounted and its socket closed, the socket is not
\* opened again and no connect timeout is started, also when the reopen tick of
\* an earlier reconnect is still to run
C22_NoReopenAfterUnmount ==
  [][~mounted => /\ socket' = socket
                 /\ timers' \subseteq timers]_vars

\* C23: the handshake emitted once the token has arrived carries the id of the
\* sandbox that is current then, and is emitted on a connected socket, not on one
\* closed while the token was awaited
C23_HandshakeOnCurrentConnection ==
  last.op = "token" =>
    /\ last.id = sandbox.id
    /\ \A i \in DOMAIN out : out[i].to = "socket" => out[i].socket = "open"

====
